---- MODULE Spec2Model ----
(***************************************************************************)
(* marblecutter-virtual, virtual/web.py: the memoized catalog factory      *)
(* make_catalog (cachetools.func.lru_cache around the function body), the  *)
(* single-source tile route render_png and the STAC tile route             *)
(* render_png_from_stac_catalog.                                           *)
(*                                                                         *)
(* Every request is served by one thread.  A thread's locals are one       *)
(* record of th; the lru cache, its lock and the heap of Catalog objects   *)
(* are shared by all threads.                                              *)
(***************************************************************************)
EXTENDS Integers, Sequences, FiniteSets, TLC

VARIABLES
    th,         \* thread -> the locals of the request it is serving
    cache,      \* the LRUCache behind make_catalog: entries [k, v], least recently used first
    lock,       \* the RLock of the lru_cache wrapper: 0 when free, else the holder
    catalogs,   \* heap of VirtualCatalog objects: identity -> object
    hist,       \* history: argument set -> constructions run / failed, evictions, instances returned
    left        \* requests the model still accepts

vars == <<th, cache, lock, catalogs, hist, left>>

----------------------------------------------------------------------------
(* Bounds of the model *)

NThreads == 2
\* requests accepted in a run: by concurrent threads, by one thread alone
MaxRequests == 2
MaxSeqRequests == 4
MaxStacRequests == 2
MaxArgs == 2
MaxFeatures == 3
\* the tile grid has 2^GridZoom cells on each axis
GridZoom == 1
\* lru_cache() is called without arguments: cachetools' default maxsize is 128.
\* The capacity is scaled down so that eviction happens within MaxRequests.
maxsize == 2

Threads == 1..NThreads

----------------------------------------------------------------------------
(* request.args: an ImmutableMultiDict, here the sequence of its (key, value) pairs *)

ArgPairs == {<<"url", "">>, <<"url", "a">>, <<"rgb", "1">>}

\* the pairs of a query string, no pair given twice
Queries ==
    {q \in UNION {[1..n -> ArgPairs] : n \in 0..MaxArgs} :
        \A i, j \in DOMAIN q : q[i] = q[j] => i = j}

\* MultiDict.getlist(k): the values given for k, in the order given
getlist(args, k) ==
    LET s == SelectSeq(args, LAMBDA p : p[1] = k)
    IN  [i \in 1..Len(s) |-> s[i][2]]

\* MultiDict.get(k, default): the first value given for k
get(args, k, default) ==
    IF getlist(args, k) = <<>> THEN default ELSE getlist(args, k)[1]

\* An argument set as the caller means it: the values given for each key.  The
\* history is kept per argument set.
ArgSet(args) ==
    [k \in {args[i][1] : i \in DOMAIN args} |-> getlist(args, k)]

\* (mutant) the key is the tuple of the pairs in the order given
hashkey_in_order(args) == args

\* cachetools.keys.hashkey(args): two ImmutableMultiDicts are the same cache key
\* when they are equal as dicts (key -> list of values), whatever the order in
\* which the keys were given
hashkey(args) ==
    [k \in {args[i][1] : i \in DOMAIN args} |-> getlist(args, k)]

\* (mutant) only a missing url is refused
no_url_when_missing(args) == getlist(args, "url") = <<>>

\* args.get("url", "") == ""
no_url(args) == get(args, "url", "") = ""

----------------------------------------------------------------------------
(* The LRUCache *)

CacheKeys(c) == {c[i].k : i \in DOMAIN c}

CacheGet(c, k) == (CHOOSE i \in DOMAIN c : c[i].k = k)

\* LRUCache.__update: the entry becomes the most recently used
MoveToEnd(c, k) ==
    SelectSeq(c, LAMBDA e : e.k # k) \o <<c[CacheGet(c, k)]>>

\* LRUCache.__setitem__ on a key that is present or absent
SetItem(c, k, v) ==
    SelectSeq(c, LAMBDA e : e.k # k) \o <<[k |-> k, v |-> v]>>

----------------------------------------------------------------------------
(* The heap of VirtualCatalog objects *)

NoCatalogs == [id \in {} |-> 0]

\* the identity of a new object: the first one not in use
NewId ==
    CHOOSE n \in 1..(Cardinality(DOMAIN catalogs) + 1) :
        n \notin DOMAIN catalogs /\ \A m \in 1..(n - 1) : m \in DOMAIN catalogs

\* the heap with a new object, its fields not set yet
Allocated(args) ==
    [id \in DOMAIN catalogs \cup {NewId} |->
        IF id = NewId
        THEN [uri |-> get(args, "url", ""), rgb |-> get(args, "rgb", "None"),
              _name |-> <<>>, _resolution |-> 0, ready |-> FALSE]
        ELSE catalogs[id]]

\* the heap without an object nothing refers to any more
Released(obj) == [id \in DOMAIN catalogs \ {obj} |-> catalogs[id]]

----------------------------------------------------------------------------
(* Thread locals *)

Exceptions == {"IOError", "ValueError"}

IdleThread ==
    [pc |-> "idle", route |-> "none", args |-> <<>>, obj |-> 0,
     err |-> "", catalog |-> 0, logged |-> "",
     status |-> 0, tile_bbox |-> <<>>, features |-> <<>>, idx |-> 0,
     image_urls |-> <<>>, sources |-> <<>>, rendered |-> <<>>, out |-> "",
     nSearch |-> 0, nMake |-> 0, nConstruct |-> 0, nRender |-> 0, cacheOps |-> 0]

Init ==
    /\ th = [t \in Threads |-> IdleThread]
    /\ cache = <<>>
    /\ lock = 0
    /\ catalogs = NoCatalogs
    /\ hist = <<>>
    /\ left = MaxRequests

Set(t, r) == th' = [th EXCEPT ![t] = r]

\* a request is handed to a thread that serves none; the threads being alike,
\* to the first of them
Free(t) == th[t].pc = "idle" /\ \A u \in 1..(t - 1) : th[u].pc # "idle"

----------------------------------------------------------------------------
(* The rasters behind the URLs, as VirtualCatalog reads them *)

RasterName(uri) == <<uri>>

RasterResolution(uri) ==
    CASE uri = "a" -> 10
      [] uri = "b" -> 20
      [] OTHER -> 30

----------------------------------------------------------------------------
(* make_catalog: the lru_cache wrapper and the function body *)

\* wrapper: with lock: v = cache[k] found; the entry becomes most recently used
make_catalog_hit(t) ==
    LET k == hashkey(th[t].args) IN
    /\ th[t].pc = "mc_lookup"
    /\ lock = 0
    /\ k \in CacheKeys(cache)
    /\ cache' = MoveToEnd(cache, k)
    /\ Set(t, [th[t] EXCEPT !.pc = "mc_ret", !.err = "",
                            !.catalog = cache[CacheGet(cache, k)].v,
                            !.cacheOps = @ + 1])
    /\ UNCHANGED <<lock, catalogs, left>>

\* wrapper: with lock: cache[k] raises KeyError; the function body runs next
make_catalog_miss(t) ==
    LET k == hashkey(th[t].args) IN
    /\ th[t].pc = "mc_lookup"
    /\ lock = 0
    /\ k \notin CacheKeys(cache)
    /\ Set(t, [th[t] EXCEPT !.pc = "mc_func", !.cacheOps = @ + 1])
    /\ UNCHANGED <<cache, lock, catalogs, left>>

\* body: if args.get("url", "") == "": raise NoCatalogAvailable()
make_catalog_no_url(t) ==
    /\ th[t].pc = "mc_func"
    /\ no_url(th[t].args)
    /\ Set(t, [th[t] EXCEPT !.pc = "mc_ret", !.err = "NoCatalogAvailable"])
    /\ UNCHANGED <<cache, lock, catalogs, left>>

\* (mutant) the object under construction is put in the cache at once
make_catalog_construct_published(t) ==
    /\ th[t].pc = "mc_func"
    /\ ~no_url(th[t].args)
    /\ catalogs' = Allocated(th[t].args)
    /\ cache' = SetItem(cache, hashkey(th[t].args), NewId)
    /\ Set(t, [th[t] EXCEPT !.pc = "mc_construct", !.obj = NewId,
                            !.nConstruct = @ + 1])
    /\ UNCHANGED <<lock, left>>

\* body: VirtualCatalog(args["url"], rgb=args.get("rgb"), ...) starts: the object
\* exists, its fields are not set yet
make_catalog_construct(t) ==
    /\ th[t].pc = "mc_func"
    /\ ~no_url(th[t].args)
    /\ catalogs' = Allocated(th[t].args)
    /\ Set(t, [th[t] EXCEPT !.pc = "mc_construct", !.obj = NewId,
                            !.nConstruct = @ + 1])
    /\ UNCHANGED <<cache, lock, left>>

\* body: the constructor returns
make_catalog_constructed(t) ==
    /\ th[t].pc = "mc_construct"
    /\ catalogs' = [catalogs EXCEPT ![th[t].obj] =
                        [uri |-> @.uri, rgb |-> @.rgb,
                         _name |-> RasterName(@.uri),
                         _resolution |-> RasterResolution(@.uri),
                         ready |-> TRUE]]
    /\ Set(t, [th[t] EXCEPT !.pc = "mc_store"])
    /\ UNCHANGED <<cache, lock, left>>

\* (mutant) the failure is memoized: the cache keeps a marker, 0, for the key
make_catalog_except_cached(t) ==
    /\ th[t].pc = "mc_construct"
    /\ \E e \in Exceptions :
         Set(t, [th[t] EXCEPT !.pc = "mc_ret", !.err = "NoCatalogAvailable",
                              !.logged = e, !.obj = 0])
    /\ cache' = SetItem(cache, hashkey(th[t].args), 0)
    /\ catalogs' = Released(th[t].obj)
    /\ UNCHANGED <<lock, left>>

\* (mutant) the constructor's error is raised as it is
make_catalog_except_reraised(t) ==
    /\ th[t].pc = "mc_construct"
    /\ \E e \in Exceptions :
         Set(t, [th[t] EXCEPT !.pc = "mc_ret", !.err = e, !.logged = e, !.obj = 0])
    /\ catalogs' = Released(th[t].obj)
    /\ UNCHANGED <<cache, lock, left>>

\* body: except Exception as e: LOG.exception(e); raise NoCatalogAvailable()
make_catalog_except(t) ==
    /\ th[t].pc = "mc_construct"
    /\ \E e \in Exceptions :
         Set(t, [th[t] EXCEPT !.pc = "mc_ret", !.err = "NoCatalogAvailable",
                              !.logged = e, !.obj = 0])
    /\ catalogs' = Released(th[t].obj)
    /\ UNCHANGED <<cache, lock, left>>

\* wrapper: with lock: storing k; a full cache first evicts its least recently
\* used entry (Cache.__setitem__: while currsize + size > maxsize: popitem())
make_catalog_store_begin(t) ==
    LET k == hashkey(th[t].args)
        full == k \notin CacheKeys(cache) /\ Len(cache) >= maxsize
    IN
    /\ th[t].pc = "mc_store"
    /\ lock = 0
    /\ lock' = t
    /\ cache' = IF full THEN Tail(cache) ELSE cache
    /\ Set(t, [th[t] EXCEPT !.pc = "mc_insert", !.cacheOps = @ + 1])
    /\ UNCHANGED <<catalogs, left>>

\* wrapper: the entry is written and the lock released.  When another thread
\* stored k in the meantime, what happens is the installed cachetools' choice:
\* releases from 4.2 on keep that entry and return it (cache.setdefault(k, v)),
\* earlier ones overwrite it (cache[k] = v).  The model allows either.
make_catalog_store_end(t) ==
    /\ th[t].pc = "mc_insert"
    /\ lock = t
    /\ lock' = 0
    /\ \E keepFirst \in BOOLEAN :
         LET k == hashkey(th[t].args)
             kept == k \in CacheKeys(cache) /\ keepFirst
             v == IF kept THEN cache[CacheGet(cache, k)].v ELSE th[t].obj
         IN  /\ cache' = IF kept THEN MoveToEnd(cache, k) ELSE SetItem(cache, k, v)
             /\ Set(t, [th[t] EXCEPT !.pc = "mc_ret", !.err = "", !.catalog = v])
    /\ UNCHANGED <<catalogs, left>>

make_catalog(t) ==
    \/ make_catalog_hit(t)
    \/ make_catalog_miss(t)
    \/ make_catalog_no_url(t)
    \/ make_catalog_construct(t)
    \/ make_catalog_constructed(t)
    \/ make_catalog_except(t)
    \/ make_catalog_store_begin(t)
    \/ make_catalog_store_end(t)

----------------------------------------------------------------------------
(* /tiles/<z>/<x>/<y>: render_png *)

\* catalog = make_catalog(request.args) is called
render_png(t) ==
    /\ Free(t)
    /\ left > 0
    /\ left' = left - 1
    /\ \E q \in Queries :
         Set(t, [IdleThread EXCEPT !.pc = "mc_lookup", !.route = "tiles",
                                   !.args = q, !.nMake = 1])
    /\ UNCHANGED <<cache, lock, catalogs>>

\* make_catalog raised: the request fails with that error
render_png_failed(t) ==
    /\ th[t].pc = "mc_ret"
    /\ th[t].route = "tiles"
    /\ th[t].err # ""
    /\ Set(t, [th[t] EXCEPT !.pc = "done", !.out = th[t].err])
    /\ UNCHANGED <<cache, lock, catalogs, left>>

\* tiling.render_tile(tile, catalog, ...); headers.update(catalog.headers)
render_png_tile(t) ==
    /\ th[t].pc = "mc_ret"
    /\ th[t].route = "tiles"
    /\ th[t].err = ""
    /\ Set(t, [th[t] EXCEPT !.pc = "done", !.out = "tile", !.nRender = @ + 1])
    /\ UNCHANGED <<cache, lock, catalogs, left>>

\* the response leaves; the thread is free for the next request
respond(t) ==
    /\ th[t].pc = "done"
    /\ Set(t, IdleThread)
    /\ UNCHANGED <<cache, lock, catalogs, left>>

----------------------------------------------------------------------------
(* /stac/<z>/<x>/<y>: render_png_from_stac_catalog *)

RECURSIVE Pow2(_)
Pow2(n) == IF n = 0 THEN 1 ELSE 2 * Pow2(n - 1)

\* mercantile.bounds(x, y, z) as [west, south, east, north], in grid units:
\* row y = 0 is the northernmost
bounds(x, y, z) ==
    LET size == Pow2(GridZoom - z)
        world == Pow2(GridZoom)
    IN  <<x * size, world - (y + 1) * size, (x + 1) * size, world - y * size>>

\* (mutant) boxes that share an edge count as overlapping
bbox_overlaps_or_touches(bbox1, bbox2) ==
    /\ bbox1[1] <= bbox2[3] /\ bbox1[3] >= bbox2[1]
    /\ bbox1[4] >= bbox2[2] /\ bbox1[2] <= bbox2[4]

bbox_overlaps(bbox1, bbox2) ==
    LET west1 == bbox1[1]  south1 == bbox1[2]  east1 == bbox1[3]  north1 == bbox1[4]
        west2 == bbox2[1]  south2 == bbox2[2]  east2 == bbox2[3]  north2 == bbox2[4]
    IN  west1 < east2 /\ east1 > west2 /\ north1 > south2 /\ south1 < north2

\* the tiles asked for: <<x, y, z>>
Tiles == {<<0, 1, GridZoom>>, <<1, 0, GridZoom>>}

\* what the search endpoint may answer
Statuses == {200, 404, 500}

BBoxes == {bounds(0, 0, 0), bounds(0, 1, GridZoom), bounds(1, 1, GridZoom)}

AssetMaps ==
    { <<>>,
      [B2 |-> [href |-> "c"]],
      [visual |-> [href |-> "a"], B2 |-> [href |-> "b"]] }

Features == [bbox : BBoxes, assets : AssetMaps]

FeatureLists == UNION {[1..n -> Features] : n \in 0..MaxFeatures}

Digit(d) ==
    CASE d = 0 -> "0" [] d = 1 -> "1" [] d = 2 -> "2" [] d = 3 -> "3" [] d = 4 -> "4"
      [] d = 5 -> "5" [] d = 6 -> "6" [] d = 7 -> "7" [] d = 8 -> "8" [] OTHER -> "9"

\* str(i) of a non-negative int: its decimal digits
RECURSIVE str(_)
str(i) == IF i < 10 THEN <<Digit(i)>> ELSE str(i \div 10) \o <<Digit(i % 10)>>

\* (mutant) the index starts at 1
Sources_from_one(image_urls, test_catalog) ==
    [j \in 1..Len(image_urls) |->
        [url |-> image_urls[j],
         name |-> test_catalog._name \o str(j),
         resolution |-> test_catalog._resolution,
         recipes |-> "imagery"]]

\* Source(url=image_url, name=test_catalog._name + str(i),
\*        resolution=test_catalog._resolution, recipes={"imagery": True})
\* for i, image_url in enumerate(image_urls)
Sources(image_urls, test_catalog) ==
    [j \in 1..Len(image_urls) |->
        [url |-> image_urls[j],
         name |-> test_catalog._name \o str(j - 1),
         resolution |-> test_catalog._resolution,
         recipes |-> "imagery"]]

\* the route is entered: tile_bbox = mercantile.bounds(x, y, z)
render_png_from_stac_catalog(t) ==
    /\ Free(t)
    /\ left > 0
    /\ left' = left - 1
    /\ \E tile \in Tiles :
         Set(t, [IdleThread EXCEPT !.pc = "s_search", !.route = "stac",
                                   !.tile_bbox = bounds(tile[1], tile[2], tile[3])])
    /\ UNCHANGED <<cache, lock, catalogs>>

\* response = requests.get(stac_catalog_url, params=params, headers=headers)
stac_search(t) ==
    /\ th[t].pc = "s_search"
    /\ \E code \in Statuses :
         Set(t, [th[t] EXCEPT !.pc = "s_assert", !.status = code, !.nSearch = @ + 1])
    /\ UNCHANGED <<cache, lock, catalogs, left>>

\* (mutant) the status is not checked
stac_assert_skipped(t) ==
    /\ th[t].pc = "s_assert"
    /\ th[t].status # 200
    /\ \E fs \in FeatureLists :
         Set(t, [th[t] EXCEPT !.pc = "s_filter", !.features = fs, !.idx = 1,
                              !.image_urls = <<>>])
    /\ UNCHANGED <<cache, lock, catalogs, left>>

\* assert response.status_code == 200 fails
stac_assert_failed(t) ==
    /\ th[t].pc = "s_assert"
    /\ th[t].status # 200
    /\ Set(t, [th[t] EXCEPT !.pc = "done", !.out = "AssertionError"])
    /\ UNCHANGED <<cache, lock, catalogs, left>>

\* features = response.json()['features']; image_urls = []
stac_features(t) ==
    /\ th[t].pc = "s_assert"
    /\ th[t].status = 200
    /\ \E fs \in FeatureLists :
         Set(t, [th[t] EXCEPT !.pc = "s_filter", !.features = fs, !.idx = 1,
                              !.image_urls = <<>>])
    /\ UNCHANGED <<cache, lock, catalogs, left>>

\* for feature in features: the bbox does not overlap the tile's: continue
stac_feature_skipped(t) ==
    /\ th[t].pc = "s_filter"
    /\ th[t].idx <= Len(th[t].features)
    /\ ~bbox_overlaps(th[t].features[th[t].idx].bbox, th[t].tile_bbox)
    /\ Set(t, [th[t] EXCEPT !.idx = @ + 1])
    /\ UNCHANGED <<cache, lock, catalogs, left>>

\* try: image_urls.append(feature['assets']['visual']['href'])
stac_feature_visual(t) ==
    LET feature == th[t].features[th[t].idx] IN
    /\ th[t].pc = "s_filter"
    /\ th[t].idx <= Len(th[t].features)
    /\ bbox_overlaps(feature.bbox, th[t].tile_bbox)
    /\ "visual" \in DOMAIN feature.assets
    /\ Set(t, [th[t] EXCEPT !.idx = @ + 1,
                            !.image_urls = Append(@, feature.assets.visual.href)])
    /\ UNCHANGED <<cache, lock, catalogs, left>>

\* except KeyError: image_urls.append(feature['assets']['B2']['href'])
stac_feature_B2(t) ==
    LET feature == th[t].features[th[t].idx] IN
    /\ th[t].pc = "s_filter"
    /\ th[t].idx <= Len(th[t].features)
    /\ bbox_overlaps(feature.bbox, th[t].tile_bbox)
    /\ "visual" \notin DOMAIN feature.assets
    /\ "B2" \in DOMAIN feature.assets
    /\ Set(t, [th[t] EXCEPT !.idx = @ + 1,
                            !.image_urls = Append(@, feature.assets.B2.href)])
    /\ UNCHANGED <<cache, lock, catalogs, left>>

\* the lookup of 'B2' inside the except clause raises KeyError, which nothing
\* in the route catches: the request ends with that error
stac_feature_KeyError(t) ==
    LET feature == th[t].features[th[t].idx] IN
    /\ th[t].pc = "s_filter"
    /\ th[t].idx <= Len(th[t].features)
    /\ bbox_overlaps(feature.bbox, th[t].tile_bbox)
    /\ "visual" \notin DOMAIN feature.assets
    /\ "B2" \notin DOMAIN feature.assets
    /\ Set(t, [th[t] EXCEPT !.pc = "done", !.out = "KeyError"])
    /\ UNCHANGED <<cache, lock, catalogs, left>>

\* if len(image_urls) > 0:
\*     test_catalog = make_catalog(ImmutableMultiDict([('url', image_urls[0])]))
stac_make_catalog(t) ==
    /\ th[t].pc = "s_filter"
    /\ th[t].idx > Len(th[t].features)
    /\ Len(th[t].image_urls) > 0
    /\ Set(t, [th[t] EXCEPT !.pc = "mc_lookup",
                            !.args = << <<"url", th[t].image_urls[1]>> >>,
                            !.nMake = @ + 1])
    /\ UNCHANGED <<cache, lock, catalogs, left>>

\* (mutant) make_catalog is called whether or not there is a URL
stac_no_sources_make_catalog(t) ==
    /\ th[t].pc = "s_filter"
    /\ th[t].idx > Len(th[t].features)
    /\ Len(th[t].image_urls) = 0
    /\ Set(t, [th[t] EXCEPT !.pc = "mc_lookup", !.args = << <<"url", "">> >>,
                            !.nMake = @ + 1])
    /\ UNCHANGED <<cache, lock, catalogs, left>>

\* len(image_urls) == 0: sources stays []
stac_no_sources(t) ==
    /\ th[t].pc = "s_filter"
    /\ th[t].idx > Len(th[t].features)
    /\ Len(th[t].image_urls) = 0
    /\ Set(t, [th[t] EXCEPT !.pc = "s_render", !.sources = <<>>])
    /\ UNCHANGED <<cache, lock, catalogs, left>>

\* make_catalog raised: the request fails with that error
stac_failed(t) ==
    /\ th[t].pc = "mc_ret"
    /\ th[t].route = "stac"
    /\ th[t].err # ""
    /\ Set(t, [th[t] EXCEPT !.pc = "done", !.out = th[t].err])
    /\ UNCHANGED <<cache, lock, catalogs, left>>

\* for i, image_url in enumerate(image_urls): sources.append(Source(...))
stac_sources(t) ==
    /\ th[t].pc = "mc_ret"
    /\ th[t].route = "stac"
    /\ th[t].err = ""
    /\ Set(t, [th[t] EXCEPT !.pc = "s_render",
                            !.sources = Sources(th[t].image_urls, catalogs[th[t].catalog])])
    /\ UNCHANGED <<cache, lock, catalogs, left>>

\* headers, data = tiling.render_tile_from_sources(tile, sources, ...)
stac_render(t) ==
    /\ th[t].pc = "s_render"
    /\ Set(t, [th[t] EXCEPT !.pc = "done", !.out = "tile", !.nRender = @ + 1,
                            !.rendered = th[t].sources])
    /\ UNCHANGED <<cache, lock, catalogs, left>>

----------------------------------------------------------------------------
(* The program *)

TilesStep(t) ==
    \/ render_png(t)
    \/ make_catalog(t)
    \/ render_png_failed(t)
    \/ render_png_tile(t)
    \/ respond(t)

StacStep(t) ==
    \/ render_png_from_stac_catalog(t)
    \/ stac_search(t)
    \/ stac_assert_failed(t)
    \/ stac_features(t)
    \/ stac_feature_skipped(t)
    \/ stac_feature_visual(t)
    \/ stac_feature_B2(t)
    \/ stac_feature_KeyError(t)
    \/ stac_make_catalog(t)
    \/ stac_no_sources(t)
    \/ stac_failed(t)
    \/ stac_sources(t)
    \/ stac_render(t)

\* Request threads serving /tiles concurrently: the shared cache under contention
Next == \E t \in Threads : TilesStep(t) /\ UNCHANGED hist

Spec == Init /\ [][Next]_vars

----------------------------------------------------------------------------
(* The history of the make_catalog calls, kept per argument set by an observer *)

NoHist == [runs |-> 0, fails |-> 0, evicts |-> 0, rets |-> {}]

H(k) == IF k \in DOMAIN hist THEN hist[k] ELSE NoHist

HistSet(k, r) == [x \in DOMAIN hist \cup {k} |-> IF x = k THEN r ELSE hist[x]]

\* what the step thread t has just taken adds to the history
Observe(t) ==
    LET k == ArgSet(th[t].args)
        from == th[t].pc
        to == th'[t].pc
    IN  hist' =
          CASE from = "mc_func" /\ to = "mc_construct" ->
                 HistSet(k, [H(k) EXCEPT !.runs = @ + 1])
            [] from = "mc_construct" /\ to = "mc_ret" ->
                 HistSet(k, [H(k) EXCEPT !.fails = @ + 1])
            [] from = "mc_store" /\ to = "mc_insert" /\ Len(cache') < Len(cache) ->
                 HistSet(Head(cache).k, [H(Head(cache).k) EXCEPT !.evicts = @ + 1])
            [] from \in {"mc_lookup", "mc_insert"} /\ to = "mc_ret" ->
                 HistSet(k, [H(k) EXCEPT !.rets = @ \cup {th'[t].catalog}])
            [] OTHER -> hist

\* One thread serving /tiles requests one after the other, observed
InitSeq ==
    /\ th = [t \in Threads |-> IdleThread]
    /\ cache = <<>>
    /\ lock = 0
    /\ catalogs = NoCatalogs
    /\ hist = <<>>
    /\ left = MaxSeqRequests

NextSeq == \E t \in {1} : TilesStep(t) /\ Observe(t)

SpecSeq == InitSeq /\ [][NextSeq]_vars

\* One thread serving /tiles and /stac requests one after the other
InitStac ==
    /\ th = [t \in Threads |-> IdleThread]
    /\ cache = <<>>
    /\ lock = 0
    /\ catalogs = NoCatalogs
    /\ hist = <<>>
    /\ left = MaxStacRequests

NextStac == \E t \in {1} : (TilesStep(t) \/ StacStep(t)) /\ UNCHANGED hist

SpecStac == InitStac /\ [][NextStac]_vars

----------------------------------------------------------------------------
(* Properties *)

\* the object is a Catalog whose construction has completed
Ready(id) == id \in DOMAIN catalogs /\ catalogs[id].ready

InMakeCatalog(t) ==
    th[t].pc \in {"mc_lookup", "mc_func", "mc_construct", "mc_store", "mc_insert", "mc_ret"}

\* the cached instance for the argument set of thread t's call, 0 when there is none
Cached(t) ==
    IF hashkey(th[t].args) \in CacheKeys(cache)
    THEN cache[CacheGet(cache, hashkey(th[t].args))].v
    ELSE 0

\* C1 as stated: in a run of calls made one after the other, the construction
\* for an argument set runs at most once and all calls with that argument set
\* return one and the same instance.
C1_OnceAndSame ==
    \A k \in DOMAIN hist : hist[k].runs <= 1 /\ Cardinality(hist[k].rets) <= 1

\* C1 amended: in a run of calls made one after the other, a call that returns
\* returns the instance the cache then holds for its argument set (whatever the
\* order of the keys); the construction for an argument set runs once, and once
\* more for each of its failures (not cached) and each eviction of its entry
\* (the cache is a bounded LRU), and the instances returned for it are one, and
\* one more per eviction.
C1_OnceUnlessFailedOrEvicted ==
    /\ \A k \in DOMAIN hist :
         /\ hist[k].runs <= 1 + hist[k].fails + hist[k].evicts
         /\ Cardinality(hist[k].rets) <= 1 + hist[k].evicts
    /\ \A t \in Threads :
         (th[t].pc = "mc_ret" /\ th[t].err = "") => Cached(t) = th[t].catalog

\* a second call, its keys in the other order, is answered from the cache with
\* the instance the first call constructed
C1_Witness ==
    /\ th[1].pc = "mc_ret"
    /\ th[1].args = << <<"rgb", "1">>, <<"url", "a">> >>
    /\ th[1].err = ""
    /\ th[1].nConstruct = 0
    /\ H(ArgSet(th[1].args)).runs = 1
    /\ H(ArgSet(th[1].args)).rets = {th[1].catalog}

\* C2: under concurrent calls every cache entry, every value make_catalog
\* returns and every catalog a route renders from is a Catalog whose
\* construction has completed; the cache is written only under the lock, which
\* one thread at a time holds, while lookups wait for it.
C2_NoPartialEntry ==
    /\ \A i \in DOMAIN cache : Ready(cache[i].v)
    /\ \A t \in Threads :
         /\ (th[t].pc = "mc_ret" /\ th[t].err = "") => Ready(th[t].catalog)
         /\ (th[t].pc = "done" /\ th[t].out = "tile" /\ th[t].route = "tiles")
                => Ready(th[t].catalog)
         /\ (th[t].pc = "mc_insert") <=> (lock = t)

\* two threads have each run a construction for the same argument set and both
\* have returned
C2_Witness ==
    /\ th[1].pc = "mc_ret" /\ th[2].pc = "mc_ret"
    /\ hashkey(th[1].args) = hashkey(th[2].args)
    /\ th[1].nConstruct = 1 /\ th[2].nConstruct = 1
    /\ th[1].err = "" /\ th[2].err = ""

Max(a, b) == IF a > b THEN a ELSE b
Min(a, b) == IF a < b THEN a ELSE b

\* the two boxes have a common interior
StrictlyOverlap(b1, b2) ==
    /\ Max(b1[1], b2[1]) < Min(b1[3], b2[3])
    /\ Max(b1[2], b2[2]) < Min(b1[4], b2[4])

\* the two boxes meet, and only on their boundaries
OnlyTouch(b1, b2) ==
    /\ Max(b1[1], b2[1]) <= Min(b1[3], b2[3])
    /\ Max(b1[2], b2[2]) <= Min(b1[4], b2[4])
    /\ ~StrictlyOverlap(b1, b2)

Hrefs(feature) == {feature.assets[a].href : a \in DOMAIN feature.assets}

\* the features the loop has gone through
Seen(t) == SubSeq(th[t].features, 1, th[t].idx - 1)

\* C4: the URL list holds one URL for each feature gone through whose bbox
\* strictly overlaps the tile's, a URL of that feature, in the order of the
\* features in the response: for the whole response once the loop is over.
C4_UrlsOfOverlapping ==
    \A t \in Threads :
        (th[t].route = "stac" /\ th[t].idx >= 1) =>
            LET over == SelectSeq(Seen(t),
                                  LAMBDA f : StrictlyOverlap(f.bbox, th[t].tile_bbox))
            IN  /\ Len(th[t].image_urls) = Len(over)
                /\ \A j \in DOMAIN over : th[t].image_urls[j] \in Hrefs(over[j])

\* the loop is over a response of an overlapping feature, one that only touches
\* the tile, and another overlapping one: two URLs, in that order
C4_Witness ==
    /\ th[1].route = "stac"
    /\ th[1].pc = "done"
    /\ th[1].out = "tile"
    /\ Len(th[1].features) = 3
    /\ StrictlyOverlap(th[1].features[1].bbox, th[1].tile_bbox)
    /\ OnlyTouch(th[1].features[2].bbox, th[1].tile_bbox)
    /\ StrictlyOverlap(th[1].features[3].bbox, th[1].tile_bbox)
    /\ th[1].image_urls = <<"c", "a">>

\* C5 as stated: a feature with neither asset key does not abort the request:
\* a /stac request whose search succeeded goes through all the features and
\* renders, unless make_catalog fails.
C5_FeatureWithoutAssetDropped ==
    \A t \in Threads :
        (th[t].route = "stac" /\ th[t].pc = "done" /\ th[t].status = 200
            /\ th[t].out # "NoCatalogAvailable")
        => (th[t].out = "tile" /\ th[t].idx > Len(th[t].features))

\* C6: when the loop ends with no URL, make_catalog is not called and the
\* request does not touch the cache, sources is empty, and the request ends
\* with the renderer called once, with no sources.
C6_NoUrlNoCatalog ==
    \A t \in Threads :
        (th[t].route = "stac" /\ th[t].pc # "s_filter"
            /\ th[t].idx > Len(th[t].features) /\ th[t].image_urls = <<>>)
        => /\ th[t].nMake = 0
           /\ th[t].cacheOps = 0
           /\ th[t].sources = <<>>
           /\ th[t].pc \in {"s_render", "done"}
           /\ th[t].pc = "s_render" => th[t].nRender = 0
           /\ th[t].pc = "done" =>
                (th[t].out = "tile" /\ th[t].nRender = 1 /\ th[t].rendered = <<>>)

\* a response with features, none of which overlaps the tile, has been rendered
C6_Witness ==
    /\ th[1].route = "stac"
    /\ th[1].pc = "done"
    /\ th[1].features # <<>>
    /\ th[1].image_urls = <<>>
    /\ th[1].out = "tile"
    /\ cache # <<>>

\* C7: after an answer other than 200 the request has made its one search
\* call, calls neither make_catalog nor the renderer, and ends with the
\* assertion's error and no tile.
C7_SearchFailureFatal ==
    \A t \in Threads :
        (th[t].route = "stac" /\ th[t].status \notin {0, 200})
        => /\ th[t].nSearch = 1
           /\ th[t].nMake = 0
           /\ th[t].cacheOps = 0
           /\ th[t].nRender = 0
           /\ th[t].pc \in {"s_assert", "done"}
           /\ th[t].pc = "done" => th[t].out = "AssertionError"

C7_Witness ==
    /\ th[1].route = "stac"
    /\ th[1].pc = "done"
    /\ th[1].status = 500
    /\ th[1].out = "AssertionError"

\* C8: a make_catalog call whose args have no url, or an empty first url,
\* never starts a construction and returns only by raising NoCatalogAvailable.
C8_NoUrlNoConstruction ==
    \A t \in Threads :
        (InMakeCatalog(t) /\ get(th[t].args, "url", "") = "")
        => /\ th[t].nConstruct = 0
           /\ th[t].pc \in {"mc_lookup", "mc_func", "mc_ret"}
           /\ th[t].pc = "mc_ret" => th[t].err = "NoCatalogAvailable"

\* a call with a rendering option and an empty url has failed
C8_Witness ==
    /\ th[1].pc = "mc_ret"
    /\ th[1].args = << <<"rgb", "1">>, <<"url", "">> >>
    /\ th[1].err = "NoCatalogAvailable"
    /\ th[1].nConstruct = 0

\* C9: a make_catalog call ends with a completed Catalog or with
\* NoCatalogAvailable, whatever the constructor raised; so does the route.
C9_OnlyNoCatalogAvailable ==
    \A t \in Threads :
        /\ th[t].pc = "mc_ret" =>
             \/ th[t].err = "" /\ Ready(th[t].catalog)
             \/ th[t].err = "NoCatalogAvailable"
        /\ (th[t].pc = "done" /\ th[t].route = "tiles") =>
             th[t].out \in {"tile", "NoCatalogAvailable"}

\* the constructor raised ValueError and the call failed with NoCatalogAvailable
C9_Witness ==
    /\ th[1].pc = "mc_ret"
    /\ th[1].logged = "ValueError"
    /\ th[1].nConstruct = 1
    /\ th[1].err = "NoCatalogAvailable"

DigitValue(c) ==
    CASE c = "0" -> 0 [] c = "1" -> 1 [] c = "2" -> 2 [] c = "3" -> 3 [] c = "4" -> 4
      [] c = "5" -> 5 [] c = "6" -> 6 [] c = "7" -> 7 [] c = "8" -> 8 [] c = "9" -> 9
      [] OTHER -> -1

\* the number a string of decimal digits denotes
RECURSIVE Decimal(_)
Decimal(digits) ==
    IF digits = <<>> THEN 0
    ELSE 10 * Decimal(SubSeq(digits, 1, Len(digits) - 1)) + DigitValue(digits[Len(digits)])

\* name is prefix followed by the decimal numeral of n
NamedByIndex(name, prefix, n) ==
    LET numeral == SubSeq(name, Len(prefix) + 1, Len(name)) IN
    /\ Len(name) > Len(prefix)
    /\ SubSeq(name, 1, Len(prefix)) = prefix
    /\ \A i \in DOMAIN numeral : DigitValue(numeral[i]) >= 0
    /\ Len(numeral) > 1 => numeral[1] # "0"
    /\ Decimal(numeral) = n

\* C10: with URLs u_0..u_{n-1}, once the loop is over make_catalog is called
\* once, with url = u_0 alone, and the n sources built from the catalog it
\* returned, and rendered, have the URLs in order, that catalog's name
\* followed by the index from 0, and that catalog's resolution.
C10_OneCatalogForAllSources ==
    \A t \in Threads :
        (th[t].route = "stac" /\ th[t].pc # "s_filter"
            /\ th[t].idx > Len(th[t].features) /\ th[t].image_urls # <<>>)
        => /\ th[t].nMake = 1
           /\ th[t].args = << <<"url", th[t].image_urls[1]>> >>
           /\ (th[t].pc = "s_render" \/ (th[t].pc = "done" /\ th[t].out = "tile")) =>
                LET test_catalog == catalogs[th[t].catalog] IN
                /\ Ready(th[t].catalog)
                /\ test_catalog.uri = th[t].image_urls[1]
                /\ Len(th[t].sources) = Len(th[t].image_urls)
                /\ \A j \in DOMAIN th[t].sources :
                     /\ th[t].sources[j].url = th[t].image_urls[j]
                     /\ NamedByIndex(th[t].sources[j].name, test_catalog._name, j - 1)
                     /\ th[t].sources[j].resolution = test_catalog._resolution
                /\ th[t].pc = "done" =>
                     (th[t].rendered = th[t].sources /\ th[t].nRender = 1)

\* three sources of three different URLs have been rendered
C10_Witness ==
    /\ th[1].route = "stac"
    /\ th[1].pc = "done"
    /\ th[1].out = "tile"
    /\ th[1].image_urls = <<"c", "a", "c">>
    /\ Len(th[1].rendered) = 3
    /\ th[1].rendered[2].url = "a"
    /\ th[1].rendered[3].url = "c"
    /\ th[1].rendered[3].name = <<"c", "2">>
    /\ th[1].rendered[3].resolution = 30
    /\ th[1].nConstruct = 1

====
